---- MODULE Spec2Model ----
(***************************************************************************)
(* Model of src/rust/src/main.rs: wallet provisioning (ensure_wallet), the *)
(* funding / payment sequence of main, the reconstruction of the payment's *)
(* details and the emission of the summary file ../out.txt.                *)
(*                                                                         *)
(* The Bitcoin Core node is an external collaborator reached over RPC.  It *)
(* is modelled by the Node* operators: wallet directory, loaded wallets,   *)
(* key pools, the chain of coinbase scripts, one wallet payment.  Every    *)
(* RPC may also fail (transport error, or a node refusal such as a missing *)
(* -txindex), which the program propagates with `?`.                       *)
(*                                                                         *)
(* Amounts are integers in model subunits: COIN subunits per BTC (the real *)
(* 10^8 does not fit TLC's 32-bit integers for a 50 BTC coinbase).         *)
(***************************************************************************)
EXTENDS Integers, Sequences, FiniteSets, TLC

\* ------------------------------------------------------------- bounds
\* Blocks already on the chain when the program starts (besides the empty chain).
PreBlocks == 1
\* Calls of ensure_wallet made by the provisioning harness.
MaxCalls == 2
\* Longest output list of a transaction handed to the classification loop.
MaxOutputs == 3

\* ---------------------------------------------------------- constants
COIN == 1000000
SUBSIDY_BTC == 50
COINBASE_MATURITY == 100
MINE_BLOCKS == 101
CONFIRM_BLOCKS == 1
PAY_BTC == 20
SUMMARY_LINES == 10

RPC_URL == "http://127.0.0.1:18443"
Regtest == "regtest"
Networks == {Regtest, "testnet"}
WalletNames == {"Miner", "Trader"}
Fees == {141, 2820}

\* ------------------------------------------------------------ options
None == << >>
Some(x) == <<x>>
Get(o) == o[1]
IsSome(o) == o # << >>

Abs(x) == IF x < 0 THEN -x ELSE x

\* ------------------------------------------------- addresses, scripts
\* A locking script: a witness-v0 key hash of a wallet key, or anything else.
Wpkh(prog) == [kind |-> "wpkh", prog |-> prog]
OpReturn == [kind |-> "op_return", prog |-> <<"commitment", "0">>]
ScriptOwner(spk) == spk.prog[1]

Hrp(net) == IF net = Regtest THEN "bcrt" ELSE "tb"

\* Address::from_script(&script, network): Some(address) for a standard script.
from_script(spk, net) ==
    IF spk.kind = "wpkh" THEN Some([hrp |-> Hrp(net), program |-> spk.prog]) ELSE None

\* Address::script_pubkey
script_pubkey(addr) == Wpkh(addr.program)

\* Address<NetworkUnchecked>::require_network(network)
require_network(addr, net) == IF addr.hrp = Hrp(net) THEN Some(addr) ELSE None

\* ------------------------------------------------------------ amounts
\* Amount::from_btc
from_btc(btc) == btc * COIN

\* Amount::to_btc / SignedAmount::to_btc: the value in BTC as a signed decimal (f64).
to_btc(a) == [neg |-> a < 0, whole |-> Abs(a) \div COIN, frac |-> Abs(a) % COIN]

\* Texts are sequences of strings.
\* Display of f64 ({}): the sign, the integer part, the fraction.
display_f64(x) ==
    <<IF x.neg THEN "-" ELSE "", ToString(x.whole), ".", ToString(x.frac)>>

\* Display of Amount ({input_amount}): the decimal followed by the denomination.
display_amount(a) == <<ToString(a \div COIN), ".", ToString(a % COIN), " BTC">>

\* Display of Address: the human-readable part, the separator, the program.
display_address(addr) == <<addr.hrp, "1">> \o addr.program

\* Display of Txid and BlockHash (hex), and of the block height (decimal).
display_hash(h) == <<"hex">> \o h
display_height(n) == <<ToString(n)>>

\* ------------------------------------------------------------ clients
\* Client::new(url, auth): the client is identified by the URL it talks to.
RootClient == <<RPC_URL>>
wallet_url(wallet_name) == <<RPC_URL, "wallet", wallet_name>>
WalletOf(client) == client[3]

VARIABLES
    walletDir,        \* node: names in the wallet directory
    loadedWallets,    \* node: names of the loaded wallets
    keypool,          \* node: next key index of every wallet
    chain,            \* node: coinbase script of block 1..height
    nodeNet,          \* node: the network it runs
    walletbroadcast,  \* node: whether wallet transactions are relayed to the mempool
    payTx,            \* node: the wallet payment, None before send_to_address
    inMempool,        \* node: the payment waits in the mempool
    confirmedAt,      \* node: height of the block holding the payment, 0 if none
    startHeight,      \* height of the chain when the program started
    pc,               \* position of main (source line of the next statement)
    err,              \* the error main ended with
    ew,               \* frame of the running ensure_wallet call
    m,                \* locals of main
    file,             \* ../out.txt: None, or Some(lines written)
    rpcLog,           \* RPC requests issued by this process, in order
    provHist          \* provisioning harness: outcome of every ensure_wallet call

nodeVars == <<walletDir, loadedWallets, keypool, chain, nodeNet, walletbroadcast,
              payTx, inMempool, confirmedAt, startHeight>>
walletVars == <<walletDir, loadedWallets>>
chainVars == <<keypool, chain, nodeNet, walletbroadcast, payTx, inMempool,
               confirmedAt, startHeight>>
progVars == <<pc, err, m, file>>
vars == <<walletDir, loadedWallets, keypool, chain, nodeNet, walletbroadcast, payTx,
          inMempool, confirmedAt, startHeight, pc, err, ew, m, file, rpcLog, provHist>>

Height == Len(chain)
Log(method, scope) == rpcLog' = Append(rpcLog, [method |-> method, scope |-> scope])

\* ------------------------------------------------- ensure_wallet frame
EwIdle == [pc |-> "idle", wallet_name |-> "", result |-> None, err |-> "", from |-> 0]
EwStart(name) == [pc |-> "L40", wallet_name |-> name, result |-> None, err |-> "",
                  from |-> Len(rpcLog)]
EwErr(kind) == [ew EXCEPT !.pc = "Err", !.err = kind]

\* line 41: wallet_names.iter().any(|w| w == wallet_name)
NeverExists(wallet_names, wallet_name) == FALSE
wallet_exists(wallet_names, wallet_name) == \E w \in wallet_names : w = wallet_name

\* line 50: loaded_wallets.iter().any(|w| w == wallet_name)
AlwaysLoaded(loaded_wallets, wallet_name) == TRUE
is_loaded(loaded_wallets, wallet_name) == \E w \in loaded_wallets : w = wallet_name

\* lines 40-43: list_wallet_dir()?, then the branch on wallet_exists
EW_ListWalletDir ==
    /\ ew.pc = "L40"
    /\ Log("listwalletdir", "")
    /\ \/ ew' = [ew EXCEPT !.pc = IF wallet_exists(walletDir, ew.wallet_name)
                                  THEN "L49" ELSE "L45"]
       \/ ew' = EwErr("transport")
    /\ UNCHANGED <<nodeVars, progVars, provHist>>

\* line 45: rpc.create_wallet(wallet_name, ..)?  The node refuses a name that is
\* already in its wallet directory; the new wallet is created loaded.
EW_CreateWallet ==
    /\ ew.pc = "L45"
    /\ Log("createwallet", "")
    /\ \/ /\ ew.wallet_name \notin walletDir
          /\ walletDir' = walletDir \cup {ew.wallet_name}
          /\ loadedWallets' = loadedWallets \cup {ew.wallet_name}
          /\ ew' = [ew EXCEPT !.pc = "L49"]
       \/ /\ ew.wallet_name \in walletDir
          /\ ew' = EwErr("already exists")
          /\ UNCHANGED walletVars
       \/ /\ ew' = EwErr("transport")
          /\ UNCHANGED walletVars
    /\ UNCHANGED <<chainVars, progVars, provHist>>

\* lines 49-50: list_wallets()?, then the branch on the loaded set
EW_ListWallets ==
    /\ ew.pc = "L49"
    /\ Log("listwallets", "")
    /\ \/ ew' = [ew EXCEPT !.pc = IF is_loaded(loadedWallets, ew.wallet_name)
                                  THEN "L56" ELSE "L52"]
       \/ ew' = EwErr("transport")
    /\ UNCHANGED <<nodeVars, progVars, provHist>>

\* line 52: rpc.load_wallet(wallet_name)?
EW_LoadWallet ==
    /\ ew.pc = "L52"
    /\ Log("loadwallet", "")
    /\ \/ /\ ew.wallet_name \in walletDir
          /\ ew.wallet_name \notin loadedWallets
          /\ loadedWallets' = loadedWallets \cup {ew.wallet_name}
          /\ ew' = [ew EXCEPT !.pc = "L56"]
       \/ /\ ew.wallet_name \notin walletDir \/ ew.wallet_name \in loadedWallets
          /\ ew' = EwErr("load refused")
          /\ UNCHANGED loadedWallets
       \/ /\ ew' = EwErr("transport")
          /\ UNCHANGED loadedWallets
    /\ UNCHANGED <<walletDir, chainVars, progVars, provHist>>

\* lines 56-61: the client bound to RPC_URL/wallet/<wallet_name>
EW_NewClient ==
    /\ ew.pc = "L56"
    /\ ew' = [ew EXCEPT !.pc = "Ok", !.result = Some(wallet_url(ew.wallet_name))]
    /\ UNCHANGED <<nodeVars, progVars, rpcLog, provHist>>

\* ------------------------------------------- the provisioning harness
\* Calls ensure_wallet up to MaxCalls times with any names, against a node whose
\* wallets another process may create at any moment.
CreateIssued(from) ==
    \E i \in (from + 1)..Len(rpcLog) : rpcLog[i].method = "createwallet"

ProvCall(name) ==
    /\ pc = "harness"
    /\ ew.pc = "idle"
    /\ Len(provHist) < MaxCalls
    /\ ew' = EwStart(name)
    /\ UNCHANGED <<nodeVars, progVars, rpcLog, provHist>>

ProvReturn ==
    /\ pc = "harness"
    /\ ew.pc \in {"Ok", "Err"}
    /\ provHist' = Append(provHist, [wallet_name |-> ew.wallet_name,
                                     ok |-> ew.pc = "Ok",
                                     result |-> ew.result,
                                     err |-> ew.err,
                                     created |-> CreateIssued(ew.from)])
    /\ ew' = EwIdle
    /\ UNCHANGED <<nodeVars, progVars, rpcLog>>

\* Another process creates (and thereby loads) a wallet on the same node.
ExternalCreate(name) ==
    /\ pc = "harness"
    /\ name \notin walletDir
    /\ walletDir' = walletDir \cup {name}
    /\ loadedWallets' = loadedWallets \cup {name}
    /\ UNCHANGED <<chainVars, progVars, ew, rpcLog, provHist>>

\* ------------------------------------------------------ the node (RPC)
\* getnewaddress on a wallet: the next key of its pool, encoded for the node's network.
NodeNewAddress(w) == [hrp |-> Hrp(nodeNet), program |-> <<w, ToString(keypool[w])>>]

\* Coinbase transaction of block h: the reward, then the witness commitment.
CoinbaseTxid(h) == <<"coinbase", ToString(h)>>
CoinbaseTx(h) ==
    [txid |-> CoinbaseTxid(h),
     input |-> << >>,
     output |-> <<[value |-> from_btc(SUBSIDY_BTC), script_pubkey |-> chain[h]],
                  [value |-> 0, script_pubkey |-> OpReturn]>>]

\* Heights of the coinbases wallet w may spend now: its own, COINBASE_MATURITY deep.
MatureCoins(w) ==
    {h \in 1..Height : ScriptOwner(chain[h]) = w /\ Height - h >= COINBASE_MATURITY}

BlockHash(h) == <<"blockhash", ToString(h)>>
PaymentTxid == <<"txid", "payment">>

\* The payment the wallet builds: one mature coinbase in, the recipient's output and
\* the change (a fresh key of the funder) out, in either order.
NodePayment(w, h, fee, to, amount, changeFirst) ==
    LET pay == [value |-> amount, script_pubkey |-> script_pubkey(to)]
        chg == [value |-> from_btc(SUBSIDY_BTC) - amount - fee,
                script_pubkey |-> Wpkh(<<w, ToString(keypool[w])>>)]
    IN  [txid |-> PaymentTxid,
         input |-> <<[previous_output |-> [txid |-> CoinbaseTxid(h), vout |-> 0]]>>,
         output |-> IF changeFirst THEN <<chg, pay>> ELSE <<pay, chg>>,
         fee |-> fee]

\* generatetoaddress: n blocks paying addr; the first takes the mempool with it.
NodeGenerate(n, addr) ==
    /\ chain' = chain \o [k \in 1..n |-> script_pubkey(addr)]
    /\ confirmedAt' = IF inMempool THEN Height + 1 ELSE confirmedAt
    /\ inMempool' = FALSE
    /\ UNCHANGED <<keypool, nodeNet, walletbroadcast, payTx, startHeight>>

\* gettransaction: the wallet's view of the payment.
NodeGetTransaction ==
    [fee |-> Some(0 - Get(payTx).fee),
     blockhash |-> IF confirmedAt > 0 THEN Some(BlockHash(confirmedAt)) ELSE None,
     hex |-> Get(payTx)]

\* ------------------------------------------------------------- main
Fail(kind) == pc' = "failed" /\ err' = kind
Goto(l) == pc' = l /\ err' = err
Set(field, value) == m' = [m EXCEPT ![field] = value]

\* line 72: rpc.get_blockchain_info()?
GetBlockchainInfo ==
    /\ pc = "L72"
    /\ Log("getblockchaininfo", "")
    /\ \/ Goto("L76")
       \/ Fail("transport")
    /\ UNCHANGED <<nodeVars, ew, m, file, provHist>>

\* lines 76 and 79: ensure_wallet(&rpc, name) is entered
EnsureCall(at, name) ==
    /\ pc = at
    /\ ew.pc = "idle"
    /\ ew' = EwStart(name)
    /\ Goto("ensure")
    /\ UNCHANGED <<nodeVars, m, file, rpcLog, provHist>>

\* lines 76 and 79: `let x = ensure_wallet(..)?`
EnsureReturn(name, field, next) ==
    /\ pc = "ensure"
    /\ ew.wallet_name = name
    /\ ew.pc \in {"Ok", "Err"}
    /\ \/ /\ ew.pc = "Ok"
          /\ Set(field, ew.result)
          /\ Goto(next)
       \/ /\ ew.pc = "Err"
          /\ Fail(ew.err)
          /\ UNCHANGED m
    /\ ew' = EwIdle
    /\ UNCHANGED <<nodeVars, file, rpcLog, provHist>>

EnsureMinerCall == EnsureCall("L76", "Miner")
EnsureMinerReturn == EnsureReturn("Miner", "miner_wallet", "L79")
EnsureTraderCall == EnsureCall("L79", "Trader")
EnsureTraderReturn == EnsureReturn("Trader", "trader_wallet", "L82")

\* A wallet RPC is answered only for a loaded wallet.
Answers(client) == WalletOf(client) \in loadedWallets

\* line 82: miner_wallet.get_new_address(None, None)?
MinerNewAddress ==
    /\ pc = "L82"
    /\ Log("getnewaddress", WalletOf(Get(m.miner_wallet)))
    /\ \/ /\ Answers(Get(m.miner_wallet))
          /\ Set("address", Some(NodeNewAddress("Miner")))
          /\ keypool' = [keypool EXCEPT !["Miner"] = @ + 1]
          /\ Goto("L85")
       \/ /\ Fail("transport")
          /\ UNCHANGED <<m, keypool>>
    /\ UNCHANGED <<walletVars, chain, nodeNet, walletbroadcast, payTx, inMempool,
                   confirmedAt, startHeight, ew, file, provHist>>

\* line 85: address.require_network(Network::Regtest).unwrap()
CheckMinerAddress ==
    /\ pc = "L85"
    /\ LET checked == require_network(Get(m.address), Regtest)
       IN  IF IsSome(checked)
           THEN Set("checked_address", checked) /\ Goto("L87")
           ELSE Fail("panic: wrong network") /\ UNCHANGED m
    /\ UNCHANGED <<nodeVars, ew, file, rpcLog, provHist>>

\* lines 87 and 112: miner_wallet.generate_to_address(n, &checked_address)?
Generate(at, n, next) ==
    /\ pc = at
    /\ Log("generatetoaddress", WalletOf(Get(m.miner_wallet)))
    /\ \/ /\ NodeGenerate(n, Get(m.checked_address))
          /\ Goto(next)
       \/ /\ Fail("transport")
          /\ UNCHANGED chainVars
    /\ UNCHANGED <<walletVars, ew, m, file, provHist>>

MineToMaturity == Generate("L87", MINE_BLOCKS, "L90")
MineConfirmation == Generate("L112", CONFIRM_BLOCKS, "L115")

\* line 90: trader_wallet.get_new_address(None, None)? (shadowed at line 93)
TraderFirstAddress ==
    /\ pc = "L90"
    /\ Log("getnewaddress", WalletOf(Get(m.trader_wallet)))
    /\ \/ /\ Answers(Get(m.trader_wallet))
          /\ Set("trader_address", Some(NodeNewAddress("Trader")))
          /\ keypool' = [keypool EXCEPT !["Trader"] = @ + 1]
          /\ Goto("L93")
       \/ /\ Fail("transport")
          /\ UNCHANGED <<m, keypool>>
    /\ UNCHANGED <<walletVars, chain, nodeNet, walletbroadcast, payTx, inMempool,
                   confirmedAt, startHeight, ew, file, provHist>>

\* lines 93-96: get_new_address(None, None)?.require_network(Regtest).unwrap()
TraderAddress ==
    /\ pc = "L93"
    /\ Log("getnewaddress", WalletOf(Get(m.trader_wallet)))
    /\ \/ /\ Answers(Get(m.trader_wallet))
          /\ keypool' = [keypool EXCEPT !["Trader"] = @ + 1]
          /\ LET checked == require_network(NodeNewAddress("Trader"), Regtest)
             IN  IF IsSome(checked)
                 THEN Set("trader_address", checked) /\ Goto("L100")
                 ELSE Fail("panic: wrong network") /\ UNCHANGED m
       \/ /\ Fail("transport")
          /\ UNCHANGED <<m, keypool>>
    /\ UNCHANGED <<walletVars, chain, nodeNet, walletbroadcast, payTx, inMempool,
                   confirmedAt, startHeight, ew, file, provHist>>

\* lines 99-109: miner_wallet.send_to_address(&trader_address, from_btc(20.0)?, ..)?
SendToAddress ==
    /\ pc = "L100"
    /\ Log("sendtoaddress", WalletOf(Get(m.miner_wallet)))
    /\ \/ /\ Answers(Get(m.miner_wallet))
          /\ \E h \in MatureCoins("Miner"), fee \in Fees, changeFirst \in BOOLEAN :
                payTx' = Some(NodePayment("Miner", h, fee, Get(m.trader_address),
                                          from_btc(PAY_BTC), changeFirst))
          /\ keypool' = [keypool EXCEPT !["Miner"] = @ + 1]
          /\ inMempool' = walletbroadcast
          /\ Set("txid", Some(PaymentTxid))
          /\ Goto("L112")
       \/ /\ Fail("transport")
          /\ UNCHANGED <<m, keypool, payTx, inMempool>>
    /\ UNCHANGED <<walletVars, chain, nodeNet, walletbroadcast, confirmedAt,
                   startHeight, ew, file, provHist>>

\* line 115: miner_wallet.get_transaction(&txid, Some(true))?
GetTransaction ==
    /\ pc = "L115"
    /\ Log("gettransaction", WalletOf(Get(m.miner_wallet)))
    /\ \/ /\ Answers(Get(m.miner_wallet))
          /\ Set("tx_details", Some(NodeGetTransaction))
          /\ Goto("L116")
       \/ /\ Fail("transport")
          /\ UNCHANGED m
    /\ UNCHANGED <<nodeVars, ew, file, provHist>>

\* lines 117-119: tx_details.fee.unwrap_or(SignedAmount::from_btc(0.0).unwrap())
fee_of(tx_details) == IF IsSome(tx_details.fee) THEN Get(tx_details.fee) ELSE from_btc(0)

\* lines 116-119: the decoded transaction and the fee
DecodeDetails ==
    /\ pc = "L116"
    /\ m' = [m EXCEPT !.tx = Some(Get(m.tx_details).hex),
                      !.fee = Some(fee_of(Get(m.tx_details)))]
    /\ Goto("L122")
    /\ UNCHANGED <<nodeVars, ew, file, rpcLog, provHist>>

\* line 122: tx_details.info.blockhash.expect("Tx should be confirmed")
NoBlockhashPasses(tx_details) == Some(BlockHash(0))
expect_blockhash(tx_details) == tx_details.blockhash

ExpectConfirmed ==
    /\ pc = "L122"
    /\ LET bh == expect_blockhash(Get(m.tx_details))
       IN  IF IsSome(bh)
           THEN Set("blockhash", bh) /\ Goto("L123")
           ELSE Fail("panic: Tx should be confirmed") /\ UNCHANGED m
    /\ UNCHANGED <<nodeVars, ew, file, rpcLog, provHist>>

\* lines 123-124: rpc.get_block_info(&blockhash)?.height
GetBlockInfo ==
    /\ pc = "L123"
    /\ Log("getblock", "")
    /\ \/ /\ \E h \in 1..Height :
                /\ BlockHash(h) = Get(m.blockhash)
                /\ Set("block_height", Some(h))
          /\ Goto("L127")
       \/ /\ Fail("transport")
          /\ UNCHANGED m
    /\ UNCHANGED <<nodeVars, ew, file, provHist>>

\* lines 127-128: get_raw_transaction(&tx.input[0].previous_output.txid, None)?
GetRawTransaction ==
    /\ pc = "L127"
    /\ IF Len(Get(m.tx).input) = 0
       THEN /\ Fail("panic: index out of bounds")
            /\ UNCHANGED <<m, rpcLog>>
       ELSE /\ Log("getrawtransaction", WalletOf(Get(m.miner_wallet)))
            /\ \/ /\ \E h \in 1..Height :
                        /\ CoinbaseTxid(h) = Get(m.tx).input[1].previous_output.txid
                        /\ Set("input_tx", Some(CoinbaseTx(h)))
                  /\ Goto("L129")
               \/ /\ Fail("transport")
                  /\ UNCHANGED m
    /\ UNCHANGED <<nodeVars, ew, file, provHist>>

\* lines 129-132: the funding output, its value and its address
ResolveInput ==
    /\ pc = "L129"
    /\ LET vout == Get(m.tx).input[1].previous_output.vout
           outs == Get(m.input_tx).output
       IN  IF vout >= Len(outs)
           THEN Fail("panic: index out of bounds") /\ UNCHANGED m
           ELSE LET input_tx_out == outs[vout + 1]
                    addr == from_script(input_tx_out.script_pubkey, Regtest)
                IN  IF IsSome(addr)
                    THEN /\ m' = [m EXCEPT !.input_amount = Some(input_tx_out.value),
                                           !.input_address = addr]
                         /\ Goto("L136")
                    ELSE Fail("panic: unmappable script") /\ UNCHANGED m
    /\ UNCHANGED <<nodeVars, ew, file, rpcLog, provHist>>

\* lines 135-137: outputs, trader_output = None, change_output = None
InitOutputs ==
    /\ pc = "L136"
    /\ m' = [m EXCEPT !.i = 0, !.trader_output = None, !.change_output = None]
    /\ Goto("L139")
    /\ UNCHANGED <<nodeVars, ew, file, rpcLog, provHist>>

\* lines 141-145: the body of the loop, on the pair (trader_output, change_output)
ClassifyFirstWins(acc, out, out_address, trader_address) ==
    IF out_address = trader_address
    THEN IF IsSome(acc.trader_output) THEN acc
         ELSE [acc EXCEPT !.trader_output = Some(<<out_address, out.value>>)]
    ELSE IF IsSome(acc.change_output) THEN acc
         ELSE [acc EXCEPT !.change_output = Some(<<out_address, out.value>>)]
ClassifyInverted(acc, out, out_address, trader_address) ==
    IF out_address # trader_address
    THEN [acc EXCEPT !.trader_output = Some(<<out_address, out.value>>)]
    ELSE [acc EXCEPT !.change_output = Some(<<out_address, out.value>>)]
classify(acc, out, out_address, trader_address) ==
    IF out_address = trader_address
    THEN [acc EXCEPT !.trader_output = Some(<<out_address, out.value>>)]
    ELSE [acc EXCEPT !.change_output = Some(<<out_address, out.value>>)]

\* lines 139-146: one turn of `for out in outputs`
ClassifyOutput ==
    /\ pc = "L139"
    /\ m.i < Len(Get(m.tx).output)
    /\ LET out == Get(m.tx).output[m.i + 1]
           out_address == from_script(out.script_pubkey, Regtest)
       IN  IF IsSome(out_address)
           THEN /\ LET acc == classify([trader_output |-> m.trader_output,
                                        change_output |-> m.change_output],
                                       out, Get(out_address), Get(m.trader_address))
                   IN  m' = [m EXCEPT !.i = @ + 1,
                                      !.trader_output = acc.trader_output,
                                      !.change_output = acc.change_output]
                /\ Goto("L139")
           ELSE Fail("panic: unmappable script") /\ UNCHANGED m
    /\ UNCHANGED <<nodeVars, ew, file, rpcLog, provHist>>

\* line 146: the loop ends
EndOutputs ==
    /\ pc = "L139"
    /\ m.i = Len(Get(m.tx).output)
    /\ Goto("L149")
    /\ UNCHANGED <<nodeVars, ew, m, file, rpcLog, provHist>>

\* line 149: File::create("../out.txt")?
CreateFile ==
    /\ pc = "L149"
    /\ \/ file' = Some(<< >>) /\ Goto("L151")
       \/ Fail("io") /\ UNCHANGED file
    /\ UNCHANGED <<nodeVars, ew, m, rpcLog, provHist>>

\* The text of an address / amount of an optional (address, amount) pair.
addr_or_na(o) == IF IsSome(o) THEN display_address(Get(o)[1]) ELSE <<"N/A">>
btc_or_default(o) == display_f64(IF IsSome(o) THEN to_btc(Get(o)[2]) ELSE to_btc(0))

\* lines 151-188: the k-th writeln!
SummaryLineSwapped(k) ==
    CASE k = 1 -> display_hash(Get(m.txid))
      [] k = 2 -> display_address(Get(m.input_address))
      [] k = 3 -> display_amount(Get(m.input_amount))
      [] k = 4 -> addr_or_na(m.change_output)
      [] k = 5 -> btc_or_default(m.change_output)
      [] k = 6 -> addr_or_na(m.trader_output)
      [] k = 7 -> btc_or_default(m.trader_output)
      [] k = 8 -> display_f64(to_btc(Get(m.fee)))
      [] k = 9 -> display_height(Get(m.block_height))
      [] k = 10 -> display_hash(Get(m.blockhash))
SummaryLine(k) ==
    CASE k = 1 -> display_hash(Get(m.txid))
      [] k = 2 -> display_address(Get(m.input_address))
      [] k = 3 -> display_amount(Get(m.input_amount))
      [] k = 4 -> addr_or_na(m.trader_output)
      [] k = 5 -> btc_or_default(m.trader_output)
      [] k = 6 -> addr_or_na(m.change_output)
      [] k = 7 -> btc_or_default(m.change_output)
      [] k = 8 -> display_f64(to_btc(Get(m.fee)))
      [] k = 9 -> display_height(Get(m.block_height))
      [] k = 10 -> display_hash(Get(m.blockhash))

\* lines 151-190: one writeln!(file, ..)?; Ok(()) after the last
WriteLine ==
    /\ pc = "L151"
    /\ \/ /\ file' = Some(Append(Get(file), SummaryLine(Len(Get(file)) + 1)))
          /\ Goto(IF Len(Get(file)) + 1 = SUMMARY_LINES THEN "done" ELSE "L151")
       \/ Fail("io") /\ UNCHANGED file
    /\ UNCHANGED <<nodeVars, ew, m, rpcLog, provHist>>


MainLocals ==
    [miner_wallet |-> None, trader_wallet |-> None, address |-> None,
     checked_address |-> None, trader_address |-> None, txid |-> None,
     tx_details |-> None, tx |-> None, fee |-> None, blockhash |-> None,
     block_height |-> None, input_tx |-> None, input_amount |-> None,
     input_address |-> None, i |-> 0, trader_output |-> None, change_output |-> None]

InitNodeWallets ==
    /\ walletDir \in SUBSET WalletNames
    /\ loadedWallets \in SUBSET walletDir
    /\ keypool = [w \in WalletNames \cup {"Elsewhere"} |-> 1]

InitProvision ==
    /\ InitNodeWallets
    /\ chain = << >>
    /\ nodeNet = Regtest
    /\ walletbroadcast = TRUE
    /\ payTx = None
    /\ inMempool = FALSE
    /\ confirmedAt = 0
    /\ startHeight = 0
    /\ pc = "harness"
    /\ err = ""
    /\ ew = EwIdle
    /\ m = MainLocals
    /\ file = None
    /\ rpcLog = << >>
    /\ provHist = << >>

NextProvision ==
    \/ EW_ListWalletDir
    \/ EW_CreateWallet
    \/ EW_ListWallets
    \/ EW_LoadWallet
    \/ EW_NewClient
    \/ \E name \in WalletNames : ProvCall(name)
    \/ ProvReturn
    \/ \E name \in WalletNames : ExternalCreate(name)

SpecProvision == InitProvision /\ [][NextProvision]_vars

\* ------------------------------------------------------ specifications
\* The chain the program finds: empty, or PreBlocks blocks mined earlier, by an
\* old key of the Miner wallet (when that wallet exists) or by somebody else.
InitChain ==
    \E n \in {0, PreBlocks} :
        \E owner \in {"Elsewhere"} \cup (walletDir \cap {"Miner"}) :
            /\ n = 0 => owner = "Elsewhere"
            /\ chain = [k \in 1..n |-> Wpkh(<<owner, "0">>)]

Init ==
    /\ InitNodeWallets
    /\ InitChain
    /\ nodeNet \in Networks
    /\ walletbroadcast \in BOOLEAN
    /\ payTx = None
    /\ inMempool = FALSE
    /\ confirmedAt = 0
    /\ startHeight = Len(chain)
    /\ pc = "L72"
    /\ err = ""
    /\ ew = EwIdle
    /\ m = MainLocals
    /\ file = None
    /\ rpcLog = << >>
    /\ provHist = << >>

Next ==
    \/ GetBlockchainInfo
    \/ EnsureMinerCall
    \/ EnsureMinerReturn
    \/ EnsureTraderCall
    \/ EnsureTraderReturn
    \/ EW_ListWalletDir
    \/ EW_CreateWallet
    \/ EW_ListWallets
    \/ EW_LoadWallet
    \/ EW_NewClient
    \/ MinerNewAddress
    \/ CheckMinerAddress
    \/ MineToMaturity
    \/ TraderFirstAddress
    \/ TraderAddress
    \/ SendToAddress
    \/ MineConfirmation
    \/ GetTransaction
    \/ DecodeDetails
    \/ ExpectConfirmed
    \/ GetBlockInfo
    \/ GetRawTransaction
    \/ ResolveInput
    \/ InitOutputs
    \/ ClassifyOutput
    \/ EndOutputs
    \/ CreateFile
    \/ WriteLine

Spec == Init /\ [][Next]_vars

\* The classification loop on any transaction: up to MaxOutputs outputs, each with
\* one of a few scripts (the recipient's, two others, an unmappable one) and values.
RecipientAddress == [hrp |-> Hrp(Regtest), program |-> <<"Trader", "2">>]
OutputPool ==
    {[value |-> v, script_pubkey |-> s] :
        v \in {1, 2},
        s \in {script_pubkey(RecipientAddress), Wpkh(<<"Miner", "2">>),
               Wpkh(<<"Miner", "3">>), OpReturn}}
OutputLists == UNION {[1..n -> OutputPool] : n \in 0..MaxOutputs}

InitClassify ==
    /\ walletDir = WalletNames
    /\ loadedWallets = WalletNames
    /\ keypool = [w \in WalletNames \cup {"Elsewhere"} |-> 1]
    /\ chain = << >>
    /\ nodeNet = Regtest
    /\ walletbroadcast = TRUE
    /\ payTx = None
    /\ inMempool = FALSE
    /\ confirmedAt = 0
    /\ startHeight = 0
    /\ pc = "L136"
    /\ err = ""
    /\ ew = EwIdle
    /\ \E outs \in OutputLists :
          m = [MainLocals EXCEPT
                 !.tx = Some([txid |-> PaymentTxid, input |-> << >>,
                              output |-> outs, fee |-> 0]),
                 !.trader_address = Some(RecipientAddress)]
    /\ file = None
    /\ rpcLog = << >>
    /\ provHist = << >>

NextClassify ==
    \/ InitOutputs
    \/ ClassifyOutput
    \/ EndOutputs

SpecClassify == InitClassify /\ [][NextClassify]_vars

\* ------------------------------------------------------------- claims
Issued(method) == \E i \in 1..Len(rpcLog) : rpcLog[i].method = method

\* C1 (SpecProvision): when a call of ensure_wallet(name) returned a handle and the
\* next call has the same name, the next call issues no create-wallet request, and
\* the handle it returns is the one the first call returned; only a transport
\* error can keep it from returning one.
C1_Idempotent ==
    \A i \in 1..(Len(provHist) - 1) :
        (provHist[i].ok /\ provHist[i + 1].wallet_name = provHist[i].wallet_name)
        => /\ ~provHist[i + 1].created
           /\ provHist[i + 1].ok => provHist[i + 1].result = provHist[i].result
           /\ provHist[i + 1].ok \/ provHist[i + 1].err = "transport"

\* Two calls in a row with one name, the first of which created the wallet.
C1_Witness ==
    /\ Len(provHist) = 2
    /\ provHist[1].ok /\ provHist[1].created
    /\ provHist[2].ok
    /\ provHist[2].wallet_name = provHist[1].wallet_name

\* C2 (Spec): whenever main is about to issue get-new-address, generate-to-address,
\* send-to-address or get-transaction through a wallet client, and whenever
\* ensure_wallet returns a client, the wallet the client names is in the node's
\* wallet directory and among its loaded wallets.
Ready(client) ==
    /\ IsSome(client)
    /\ WalletOf(Get(client)) \in walletDir
    /\ WalletOf(Get(client)) \in loadedWallets
C2_HandleReady ==
    /\ pc \in {"L82", "L87", "L100", "L112", "L115"} => Ready(m.miner_wallet)
    /\ pc \in {"L90", "L93"} => Ready(m.trader_wallet)
    /\ ew.pc = "Ok" => /\ ew.result = Some(wallet_url(ew.wallet_name))
                       /\ Ready(ew.result)

\* The payment is about to be sent after one wallet had to be created and the other
\* had to be loaded.
C2_Witness ==
    /\ pc = "L100"
    /\ Issued("createwallet")
    /\ Issued("loadwallet")
    /\ Issued("getnewaddress")

\* C3 (SpecProvision): a create-wallet request answered "already exists" does not
\* make ensure_wallet fail.
C3_RaceTolerated == ~(ew.pc = "Err" /\ ew.err = "already exists")

\* C4 (Spec): once the wallet's details of the transaction carry no block hash, main
\* can only reach the "Tx should be confirmed" failure: it issues no block-info and
\* no raw-transaction query, fills no field of the record and creates no file.
Unconfirmed == IsSome(m.tx_details) /\ ~IsSome(Get(m.tx_details).blockhash)
C4_UnconfirmedFails ==
    Unconfirmed =>
        /\ pc \in {"L116", "L122", "failed"}
        /\ pc = "failed" => err = "panic: Tx should be confirmed"
        /\ ~Issued("getblock")
        /\ ~Issued("getrawtransaction")
        /\ m.blockhash = None /\ m.block_height = None
        /\ m.input_address = None /\ m.input_amount = None
        /\ file = None

C4_Witness == Unconfirmed /\ pc = "failed" /\ IsSome(m.fee)

\* C5 (Spec): a run that ends in a failure leaves no summary file or a complete one.
C5_NoPartialFile ==
    pc = "failed" => (file = None \/ Len(Get(file)) = SUMMARY_LINES)

\* C6 (Spec): the fee line of the summary is the magnitude of the wallet's fee field
\* when the field is present, and zero when it is absent.
FeeMagnitude ==
    IF IsSome(Get(m.tx_details).fee) THEN Abs(Get(Get(m.tx_details).fee)) ELSE 0
C6_FeeIsMagnitude ==
    (IsSome(file) /\ Len(Get(file)) >= 8)
    => Get(file)[8] = display_f64(to_btc(FeeMagnitude))

\* Classification, stated on the output list of the transaction.
Outs == Get(m.tx).output
AddrOf(k) == from_script(Outs[k].script_pubkey, Regtest)
IsRecipient(k) == AddrOf(k) = Some(Get(m.trader_address))
Picked(k) == Some(<<Get(AddrOf(k)), Outs[k].value>>)
LastOf(S) == CHOOSE k \in S : \A j \in S : j <= k

\* C7 (SpecClassify): for a transaction of exactly two outputs, one paying the
\* recipient address and one paying another address, in either order, after the
\* loop trader_output is the recipient's (address, amount), change_output is the
\* other's, and the two differ.
TwoOutputCase ==
    /\ Len(Outs) = 2
    /\ \E r \in 1..2 : IsRecipient(r) /\ ~IsRecipient(3 - r) /\ IsSome(AddrOf(3 - r))
C7_Complete ==
    (pc = "L149" /\ TwoOutputCase) =>
        \E r \in 1..2 :
            /\ IsRecipient(r)
            /\ m.trader_output = Picked(r)
            /\ m.change_output = Picked(3 - r)
            /\ m.trader_output # m.change_output

\* The change comes first and the recipient's output second.
C7_Witness == pc = "L149" /\ TwoOutputCase /\ IsRecipient(2)

\* C10 (SpecClassify): after the loop change_output is the last output whose
\* address differs from the recipient address, trader_output the last output whose
\* address equals it, each unset exactly when there is no such output.
C10_LastWins ==
    pc = "L149" =>
        LET rec == {k \in 1..Len(Outs) : IsRecipient(k)}
            chg == {k \in 1..Len(Outs) : ~IsRecipient(k)}
        IN  /\ m.trader_output = IF rec = {} THEN None ELSE Picked(LastOf(rec))
            /\ m.change_output = IF chg = {} THEN None ELSE Picked(LastOf(chg))
            /\ IsSome(m.trader_output) /\ IsSome(m.change_output)
               => m.trader_output # m.change_output

\* Several outputs to other addresses, the last of which is not the first's copy.
C10_Witness ==
    /\ pc = "L149"
    /\ Len(Outs) = MaxOutputs
    /\ ~IsRecipient(1) /\ ~IsRecipient(Len(Outs))
    /\ Outs[1] # Outs[Len(Outs)]
    /\ \E k \in 1..Len(Outs) : IsRecipient(k)

\* C8 (Spec): on an empty chain at the start, the finished run has recorded height
\* 102, the mining address as input address, (the Trader address paid, 20) as
\* recipient output, change = input - 20 - fee, and fee > 0.
ScenarioBut(fee) ==
    /\ m.block_height = Some(MINE_BLOCKS + CONFIRM_BLOCKS)
    /\ m.input_address = m.checked_address
    /\ m.trader_output = Some(<<Get(m.trader_address), from_btc(PAY_BTC)>>)
    /\ IsSome(m.change_output)
    /\ Get(m.change_output)[2] = Get(m.input_amount) - from_btc(PAY_BTC) - fee
    /\ fee > 0
C8_Scenario == (pc = "done" /\ startHeight = 0) => ScenarioBut(Get(m.fee))

\* The same scenario with the fee read as the magnitude of the recorded fee.
ScenarioUpToFeeSign ==
    (pc = "done" /\ startHeight = 0) => ScenarioBut(Abs(Get(m.fee)))

\* C9 as stated (Spec): the file of a finished run has exactly nine fields.
ExpectedLine(k) ==
    CASE k = 1 -> display_hash(PaymentTxid)
      [] k = 2 -> display_address(Get(m.input_address))
      [] k = 3 -> display_amount(Get(m.input_amount))
      [] k = 4 -> IF IsSome(m.trader_output)
                  THEN display_address(Get(m.trader_output)[1]) ELSE <<"N/A">>
      [] k = 5 -> display_f64(to_btc(IF IsSome(m.trader_output)
                                     THEN Get(m.trader_output)[2] ELSE 0))
      [] k = 6 -> IF IsSome(m.change_output)
                  THEN display_address(Get(m.change_output)[1]) ELSE <<"N/A">>
      [] k = 7 -> display_f64(to_btc(IF IsSome(m.change_output)
                                     THEN Get(m.change_output)[2] ELSE 0))
      [] k = 8 -> display_f64(to_btc(Abs(Get(m.fee))))
      [] k = 9 -> display_height(confirmedAt)
      [] k = 10 -> display_hash(BlockHash(confirmedAt))
\* The fee line is compared without its sign.
LineAgrees(k, line) ==
    IF k = 8 THEN Tail(line) = Tail(ExpectedLine(k)) ELSE line = ExpectedLine(k)
InOrder(lines) == \A k \in 1..Len(lines) : LineAgrees(k, lines[k])

====
